---- MODULE Spec2Model ----
(***************************************************************************)
(* Model of rustea's runtime, `run` in src/lib.rs: the Dispatcher (main    *)
(* loop), the Event Source thread, the Command Executor thread and the     *)
(* Command workers it spawns, with the two mpsc channels between them.     *)
(***************************************************************************)
EXTENDS Integers, Sequences, FiniteSets, TLC

(* ------------------------------ bounds -------------------------------- *)
\* units of work in one run: input events the Event Source reads plus
\* Commands the application creates (a Batch of n Commands counts n + 1)
MaxWork == 3

VARIABLES
    state,      \* the application state owned by run (`app`): a counter
    pc,         \* the Dispatcher's position in run
    pending,    \* the Commands of the Batch being enqueued (`batch.0` iterator)
    msgq,       \* the message channel's buffer (msg_tx / msg_rx)
    cmdq,       \* the command channel's buffer (cmd_tx / cmd_rx)
    rxAlive,    \* msg_rx has not been dropped
    txAlive,    \* run still holds cmd_tx
    es,         \* the Event Source thread
    exec,       \* the Command Executor thread
    workers,    \* the Command workers, in the order they were spawned
    nev,        \* events read so far
    ncmd,       \* Commands created so far
    nmsg,       \* Messages put on the message channel so far
    calls,      \* history: the calls of view and update, in order
    dequeued,   \* history: the Messages msg_rx.recv() returned, in order
    enq         \* history: the Commands put on the command channel, in order

vars == <<state, pc, pending, msgq, cmdq, rxAlive, txAlive, es, exec, workers,
          nev, ncmd, nmsg, calls, dequeued, enq>>

(* --------------------------- data model ------------------------------- *)
\* the payloads of application-defined Messages
Payloads == {1}

\* What a Command does when it is called: returns None, returns an
\* application Message, returns the Quit or a Batch Message, or never returns.
NoCmds == <<>>

SimpleCmds ==
    {[kind |-> k, payload |-> 0, sub |-> NoCmds] : k \in {"none", "hang", "quit"}}
    \cup {[kind |-> "msg", payload |-> p, sub |-> NoCmds] : p \in Payloads}

BatchBodies == UNION {[1..n -> SimpleCmds] : n \in 0..(MaxWork - 1)}

BatchCmds == {[kind |-> "batch", payload |-> 0, sub |-> b] : b \in BatchBodies}

Commands == SimpleCmds \cup BatchCmds

\* Commands a Command accounts for: itself and those its Batch carries.
Cost(c) == 1 + Len(c.sub)

\* Option<Command>: None is the empty sequence, Some(c) is <<c>>.
OptCommands(budget) ==
    {<<>>} \cup {<<c>> : c \in {d \in Commands : Cost(d) <= budget}}

\* The raw events crossterm's read() yields.
RawEvents ==
    {[kind |-> "Key", a |-> 1, b |-> 0],
     [kind |-> "Mouse", a |-> 1, b |-> 0],
     [kind |-> "Resize", a |-> 1, b |-> 2]}

\* mutant: a key event is boxed as the Quit Message
EventMessageQuitKey(ev) ==
    IF ev.kind = "Key"
    THEN [type |-> "QuitMessage", payload |-> <<>>, cmds |-> NoCmds]
    ELSE [type |-> "ResizeEvent", payload |-> <<ev.a, ev.b>>, cmds |-> NoCmds]

\* Box::new(event) / Box::new(ResizeEvent(x, y))
EventMessage(ev) ==
    IF ev.kind = "Resize"
    THEN [type |-> "ResizeEvent", payload |-> <<ev.a, ev.b>>, cmds |-> NoCmds]
    ELSE [type |-> ev.kind \o "Event", payload |-> <<ev.a>>, cmds |-> NoCmds]

\* The Message a Command returns (Some), for the kinds that return one.
CommandMessage(c) ==
    CASE c.kind = "msg"   -> [type |-> "App", payload |-> <<c.payload>>, cmds |-> NoCmds]
      [] c.kind = "quit"  -> [type |-> "QuitMessage", payload |-> <<>>, cmds |-> NoCmds]
      [] c.kind = "batch" -> [type |-> "BatchMessage", payload |-> <<>>, cmds |-> c.sub]

\* msg.is::<command::QuitMessage>()
IsQuit(m) == m.type = "QuitMessage"

\* mutant: a Batch is not recognised
IsBatchNever(m) == FALSE

\* msg.is::<command::BatchMessage>()
IsBatch(m) == m.type = "BatchMessage"

\* mutant: the Message is rebuilt on its way into the channel, its fields reset
BoxedRebuilt(m, from, n) ==
    [id |-> n, from |-> from, type |-> m.type,
     payload |-> [k \in DOMAIN m.payload |-> 0], cmds |-> m.cmds]

\* A Message as it sits in the channel: the boxed value, who sent it (0: the
\* Event Source, i > 0: the worker of Command i) and the number of the send.
Boxed(m, from, n) ==
    [id |-> n, from |-> from, type |-> m.type, payload |-> m.payload, cmds |-> m.cmds]

(* ----------------------------- channels ------------------------------- *)
\* cmd_tx.send(cmd): the Command joins the channel's buffer.
SendCmd(q, c, n) == Append(q, [id |-> n, kind |-> c.kind, payload |-> c.payload, sub |-> c.sub])

\* mutant: the Message is put at the front of the buffer
SendMsgFront(q, m, from, n) == <<Boxed(m, from, n)>> \o q

\* msg_tx.send(msg): the Message joins the channel's buffer.
SendMsg(q, m, from, n) == Append(q, Boxed(m, from, n))

\* mutant: a receive leaves the value in the buffer
RestKeep(q) == q

\* msg_rx.recv() / cmd_rx.recv(): the rest of the buffer after a receive.
Rest(q) == Tail(q)

\* the running workers
Running == {i \in 1..Len(workers) : workers[i].st = "running"}

Init ==
    /\ state = 0
    /\ pc = "init"
    /\ pending = <<>>
    /\ msgq = <<>>
    /\ cmdq = <<>>
    /\ rxAlive = TRUE
    /\ txAlive = TRUE
    /\ es = "reading"
    /\ exec = "running"
    /\ workers = <<>>
    /\ nev = 0
    /\ ncmd = 0
    /\ nmsg = 0
    /\ calls = <<>>
    /\ dequeued = <<>>
    /\ enq = <<>>

(* --------------------------- application ------------------------------ *)
\* App::init: the application's choice of an optional first Command.
AppInit(budget) == OptCommands(budget)

\* App::update: the application's choices of <<next state, optional Command>>.
\* The application of the model counts the Messages it is given and is free
\* in the Command it returns.
AppUpdate(s, m, budget) == {s + 1} \X OptCommands(budget)

\* Scenario A's application: init yields no Command; update counts the
\* Message it is given and yields the Command that produces the next Tick
\* (as long as the bound on the run's work allows one more Command).
TickCmd == [kind |-> "msg", payload |-> 1, sub |-> NoCmds]
TickerInit == {<<>>}
TickerUpdate(s, m, budget) == {<<s + 1, IF budget > 0 THEN <<TickCmd>> ELSE <<>>>>}

\* Scenario B's application: init yields no Command; update, on the first
\* key event, yields a Command whose Message is Batch([cmdA, cmdB]), cmdA
\* producing a Message and cmdB producing one or none; on any other Message
\* it yields no Command.
CmdA == [kind |-> "msg", payload |-> 1, sub |-> NoCmds]
CmdsB == {[kind |-> "msg", payload |-> 1, sub |-> NoCmds],
          [kind |-> "none", payload |-> 0, sub |-> NoCmds]}
BatcherInit == {<<>>}
BatcherUpdate(s, m, issued) ==
    IF m.type = "KeyEvent" /\ issued = 0
    THEN {<<s + 1, <<[kind |-> "batch", payload |-> 0, sub |-> <<CmdA, b>>]>>>> : b \in CmdsB}
    ELSE {<<s + 1, <<>>>>}

\* the init and update of the application a specification runs
InitOf(app, budget) ==
    CASE app = "free" -> AppInit(budget)
      [] app = "ticker" -> TickerInit
      [] app = "batcher" -> BatcherInit

UpdateOf(app, s, m, budget) ==
    CASE app = "free" -> AppUpdate(s, m, budget)
      [] app = "ticker" -> TickerUpdate(s, m, budget)
      [] app = "batcher" -> BatcherUpdate(s, m, ncmd)

NoMsg == [id |-> 0, from |-> 0, type |-> "", payload |-> <<>>, cmds |-> NoCmds]

\* app.view(&mut stdout): renders the state it is given.
ViewCall(s) == [op |-> "view", state |-> s, msg |-> NoMsg]

\* app.update(msg)
UpdateCall(s, m) == [op |-> "update", state |-> s, msg |-> m]

(* ---------------------------- Dispatcher ------------------------------ *)
\* the work left within the bound
Budget == MaxWork - nev - ncmd

\* cmd_tx.send(cmd).unwrap() for an Option<Command>: the send fails when the
\* Executor has dropped cmd_rx, and unwrap then unwinds run, dropping msg_rx
\* and cmd_tx.
SendOpt(oc, next) ==
    IF oc = <<>>
    THEN /\ pc' = next
         /\ UNCHANGED <<cmdq, enq, ncmd, rxAlive, txAlive>>
    ELSE IF exec = "running"
    THEN /\ cmdq' = SendCmd(cmdq, oc[1], Len(enq) + 1)
         /\ enq' = SendCmd(enq, oc[1], Len(enq) + 1)
         /\ ncmd' = ncmd + Cost(oc[1])
         /\ pc' = next
         /\ UNCHANGED <<rxAlive, txAlive>>
    ELSE /\ pc' = "panicked"
         /\ rxAlive' = FALSE
         /\ txAlive' = FALSE
         /\ ncmd' = ncmd + Cost(oc[1])
         /\ UNCHANGED <<cmdq, enq>>

\* initialize(&app, cmd_tx2), for the application `app`
InitializeOf(app) ==
    /\ pc = "init"
    /\ \E oc \in InitOf(app, Budget) : SendOpt(oc, "view")
    /\ UNCHANGED <<state, pending, msgq, es, exec, workers, nev, nmsg, calls, dequeued>>

\* mutant: the initial state is not rendered
InitializeNoRender ==
    /\ pc = "init"
    /\ \E oc \in InitOf("free", Budget) : SendOpt(oc, "recv")
    /\ UNCHANGED <<state, pending, msgq, es, exec, workers, nev, nmsg, calls, dequeued>>

\* initialize(&app, cmd_tx2)
Initialize == InitializeOf("free")

\* mutant: the state is rendered twice
ViewTwice ==
    /\ pc = "view"
    /\ calls' = Append(Append(calls, ViewCall(state)), ViewCall(state))
    /\ pc' = "recv"
    /\ UNCHANGED <<state, pending, msgq, cmdq, rxAlive, txAlive, es, exec, workers,
                   nev, ncmd, nmsg, dequeued, enq>>

\* app.view(&mut stdout), after initialize and at the end of each iteration
View ==
    /\ pc = "view"
    /\ calls' = Append(calls, ViewCall(state))
    /\ pc' = "recv"
    /\ UNCHANGED <<state, pending, msgq, cmdq, rxAlive, txAlive, es, exec, workers,
                   nev, ncmd, nmsg, dequeued, enq>>

\* Every Sender of the message channel is gone: the Event Source's msg_tx,
\* the Executor's msg_tx2 and the clones the live workers hold.
Disconnected == es # "reading" /\ exec # "running" /\ Running = {}

\* mutant: Quit is rendered before the loop ends
QuitStepRendered ==
    /\ pc' = "done"
    /\ rxAlive' = FALSE
    /\ txAlive' = FALSE
    /\ calls' = Append(calls, ViewCall(state))
    /\ UNCHANGED <<state, pending, cmdq, enq, ncmd>>

\* mutant: the loop goes on after Quit
QuitStepContinue ==
    /\ pc' = "view"
    /\ UNCHANGED <<state, pending, cmdq, enq, ncmd, calls, rxAlive, txAlive>>

\* if msg.is::<QuitMessage>() { break; } ... Ok(()): run returns and drops
\* msg_rx and cmd_tx.
QuitStep ==
    /\ pc' = "done"
    /\ rxAlive' = FALSE
    /\ txAlive' = FALSE
    /\ UNCHANGED <<state, pending, cmdq, enq, ncmd, calls>>

\* mutant: no render after a Batch
AfterBatchNoView == "recv"

\* where the Dispatcher goes once a Batch's Commands are all sent
AfterBatch == "view"

\* mutant: the Batch's Commands are sent last to first
BatchStepReversed(m) ==
    /\ pending' = [i \in 1..Len(m.cmds) |-> m.cmds[Len(m.cmds) + 1 - i]]
    /\ pc' = IF m.cmds = <<>> THEN AfterBatch ELSE "batch"
    /\ UNCHANGED <<state, cmdq, enq, ncmd, calls, rxAlive, txAlive>>

\* else if msg.is::<BatchMessage>(): the loop over batch.0 starts
BatchStep(m) ==
    /\ pending' = m.cmds
    /\ pc' = IF m.cmds = <<>> THEN AfterBatch ELSE "batch"
    /\ UNCHANGED <<state, cmdq, enq, ncmd, calls, rxAlive, txAlive>>

\* mutant: no render after update
AfterUpdateNoView == "recv"

\* where the Dispatcher goes once update has returned and its Command is sent
AfterUpdate == "view"

\* else if let Some(cmd) = app.update(msg) { cmd_tx.send(cmd).unwrap(); }
UpdateStepOf(app, m) ==
    \E r \in UpdateOf(app, state, m, Budget) :
        /\ state' = r[1]
        /\ calls' = Append(calls, UpdateCall(r[1], m))
        /\ SendOpt(r[2], AfterUpdate)
        /\ UNCHANGED pending

UpdateStep(m) == UpdateStepOf("free", m)

\* let msg = msg_rx.recv().unwrap(); and the dispatch on its type, for the
\* application `app`
ReceiveOf(app) ==
    /\ pc = "recv"
    /\ IF msgq = <<>>
       THEN /\ Disconnected
            /\ pc' = "panicked"
            /\ rxAlive' = FALSE
            /\ txAlive' = FALSE
            /\ UNCHANGED <<state, pending, msgq, cmdq, enq, ncmd, calls, dequeued>>
       ELSE /\ msgq' = Rest(msgq)
            /\ dequeued' = Append(dequeued, Head(msgq))
            /\ IF IsQuit(Head(msgq)) THEN QuitStep
               ELSE IF IsBatch(Head(msgq)) THEN BatchStep(Head(msgq))
               ELSE UpdateStepOf(app, Head(msgq))
    /\ UNCHANGED <<es, exec, workers, nev, nmsg>>

\* let msg = msg_rx.recv().unwrap(); and the dispatch on its type
Receive == ReceiveOf("free")

\* mutant: only the first Command of a Batch is sent
BatchSendFirstOnly ==
    /\ pc = "batch"
    /\ pending # <<>>
    /\ pending' = <<>>
    /\ cmdq' = SendCmd(cmdq, Head(pending), Len(enq) + 1)
    /\ enq' = SendCmd(enq, Head(pending), Len(enq) + 1)
    /\ pc' = AfterBatch
    /\ UNCHANGED <<state, msgq, rxAlive, txAlive, es, exec, workers, nev, ncmd, nmsg,
                   calls, dequeued>>

\* for cmd in batch.0 { cmd_tx.send(cmd).unwrap(); }: one iteration
BatchSend ==
    /\ pc = "batch"
    /\ pending # <<>>
    /\ pending' = Tail(pending)
    /\ IF exec = "running"
       THEN /\ cmdq' = SendCmd(cmdq, Head(pending), Len(enq) + 1)
            /\ enq' = SendCmd(enq, Head(pending), Len(enq) + 1)
            /\ pc' = IF Tail(pending) = <<>> THEN AfterBatch ELSE "batch"
            /\ UNCHANGED <<rxAlive, txAlive>>
       ELSE /\ pc' = "panicked"
            /\ rxAlive' = FALSE
            /\ txAlive' = FALSE
            /\ UNCHANGED <<cmdq, enq>>
    /\ UNCHANGED <<state, msgq, es, exec, workers, nev, ncmd, nmsg, calls, dequeued>>

(* --------------------------- Event Source ----------------------------- *)
\* mutant: the send succeeds whether or not the receiver is there
ESReadUnchecked ==
    /\ es = "reading"
    /\ Budget > 0
    /\ nev' = nev + 1
    /\ \E ev \in RawEvents :
        /\ msgq' = SendMsg(msgq, EventMessage(ev), 0, nmsg + 1)
        /\ nmsg' = nmsg + 1
        /\ UNCHANGED es
    /\ UNCHANGED <<state, pc, pending, cmdq, rxAlive, txAlive, exec, workers,
                   ncmd, calls, dequeued, enq>>

\* read() returns an event; msg_tx.send(Box::new(..)).unwrap()
ESRead ==
    /\ es = "reading"
    /\ Budget > 0
    /\ nev' = nev + 1
    /\ \E ev \in RawEvents :
        IF rxAlive
        THEN /\ msgq' = SendMsg(msgq, EventMessage(ev), 0, nmsg + 1)
             /\ nmsg' = nmsg + 1
             /\ UNCHANGED es
        ELSE /\ es' = "sendfailed"
             /\ UNCHANGED <<msgq, nmsg>>
    /\ UNCHANGED <<state, pc, pending, cmdq, rxAlive, txAlive, exec, workers,
                   ncmd, calls, dequeued, enq>>

\* mutant: the failure is reported to the Dispatcher as a Message
ESFailNotifies ==
    /\ es = "reading"
    /\ es' = "readfailed"
    /\ rxAlive
    /\ msgq' = SendMsg(msgq, [type |-> "App", payload |-> <<>>, cmds |-> NoCmds], 0, nmsg + 1)
    /\ nmsg' = nmsg + 1
    /\ UNCHANGED <<state, pc, pending, cmdq, rxAlive, txAlive, exec, workers,
                   nev, ncmd, calls, dequeued, enq>>

\* read() returns Err: unwrap panics and the thread ends
ESFail ==
    /\ es = "reading"
    /\ es' = "readfailed"
    /\ UNCHANGED <<state, pc, pending, msgq, cmdq, rxAlive, txAlive, exec, workers,
                   nev, ncmd, nmsg, calls, dequeued, enq>>

(* ------------------------- Command Executor --------------------------- *)
\* mutant: the Command is handed to two workers
SpawnTwice(ws, c) ==
    Append(Append(ws, [cmd |-> c, st |-> "running", out |-> 0]),
           [cmd |-> c, st |-> "running", out |-> 0])

\* a new worker thread, running the Command it was handed
Spawn(ws, c) == Append(ws, [cmd |-> c, st |-> "running", out |-> 0])

\* mutant: the Executor waits for its workers before it takes a Command
ExecRecvJoin ==
    /\ exec = "running"
    /\ cmdq # <<>>
    /\ \A w \in 1..Len(workers) : workers[w].st # "running"
    /\ workers' = Spawn(workers, Head(cmdq))
    /\ cmdq' = Rest(cmdq)
    /\ UNCHANGED <<state, pc, pending, msgq, rxAlive, txAlive, es, exec,
                   nev, ncmd, nmsg, calls, dequeued, enq>>

\* mutant: the Executor takes the Command sent last
ExecRecvNewest ==
    /\ exec = "running"
    /\ cmdq # <<>>
    /\ workers' = Spawn(workers, cmdq[Len(cmdq)])
    /\ cmdq' = SubSeq(cmdq, 1, Len(cmdq) - 1)
    /\ UNCHANGED <<state, pc, pending, msgq, rxAlive, txAlive, es, exec,
                   nev, ncmd, nmsg, calls, dequeued, enq>>

\* Ok(cmd) = cmd_rx.recv(); thread::spawn(move || ...)
ExecRecv ==
    /\ exec = "running"
    /\ cmdq # <<>>
    /\ workers' = Spawn(workers, Head(cmdq))
    /\ cmdq' = Rest(cmdq)
    /\ UNCHANGED <<state, pc, pending, msgq, rxAlive, txAlive, es, exec,
                   nev, ncmd, nmsg, calls, dequeued, enq>>

\* mutant: the Executor returns as soon as no Command waits
ExecExitIdle ==
    /\ exec = "running"
    /\ cmdq = <<>>
    /\ exec' = "exited"
    /\ UNCHANGED <<state, pc, pending, msgq, cmdq, rxAlive, txAlive, es, workers,
                   nev, ncmd, nmsg, calls, dequeued, enq>>

\* Err(_) => return: the buffer is empty and every cmd Sender is dropped
ExecExit ==
    /\ exec = "running"
    /\ cmdq = <<>>
    /\ ~txAlive
    /\ exec' = "exited"
    /\ UNCHANGED <<state, pc, pending, msgq, cmdq, rxAlive, txAlive, es, workers,
                   nev, ncmd, nmsg, calls, dequeued, enq>>

(* --------------------------- Command worker --------------------------- *)
\* mutant: a Command that returns None still has an (empty) Message sent
WorkerReturnSendsAlways(i) ==
    /\ i \in DOMAIN workers
    /\ workers[i].st = "running"
    /\ workers[i].cmd.kind # "hang"
    /\ IF rxAlive
       THEN /\ msgq' = SendMsg(msgq,
                               IF workers[i].cmd.kind = "none"
                               THEN [type |-> "App", payload |-> <<>>, cmds |-> NoCmds]
                               ELSE CommandMessage(workers[i].cmd),
                               workers[i].cmd.id, nmsg + 1)
            /\ nmsg' = nmsg + 1
            /\ workers' = [workers EXCEPT ![i].st = "done", ![i].out = nmsg + 1]
       ELSE /\ workers' = [workers EXCEPT ![i].st = "panicked"]
            /\ UNCHANGED <<msgq, nmsg>>
    /\ UNCHANGED <<state, pc, pending, cmdq, rxAlive, txAlive, es, exec,
                   nev, ncmd, calls, dequeued, enq>>

\* if let Some(msg) = cmd() { msg_tx2.send(msg).unwrap(); }
WorkerReturn(i) ==
    /\ i \in DOMAIN workers
    /\ workers[i].st = "running"
    /\ workers[i].cmd.kind # "hang"
    /\ IF workers[i].cmd.kind = "none"
       THEN /\ workers' = [workers EXCEPT ![i].st = "done"]
            /\ UNCHANGED <<msgq, nmsg>>
       ELSE IF rxAlive
       THEN /\ msgq' = SendMsg(msgq, CommandMessage(workers[i].cmd),
                               workers[i].cmd.id, nmsg + 1)
            /\ nmsg' = nmsg + 1
            /\ workers' = [workers EXCEPT ![i].st = "done", ![i].out = nmsg + 1]
       ELSE /\ workers' = [workers EXCEPT ![i].st = "panicked"]
            /\ UNCHANGED <<msgq, nmsg>>
    /\ UNCHANGED <<state, pc, pending, cmdq, rxAlive, txAlive, es, exec,
                   nev, ncmd, calls, dequeued, enq>>

Worker == \E i \in 1..Len(workers) : WorkerReturn(i)

Next ==
    \/ Initialize
    \/ View
    \/ Receive
    \/ BatchSend
    \/ ESRead
    \/ ESFail
    \/ ExecRecv
    \/ ExecExit
    \/ Worker

Spec == Init /\ [][Next]_vars

\* the three kinds of thread
Dispatcher == Initialize \/ View \/ Receive \/ BatchSend
Executor == ExecRecv \/ ExecExit

\* The threads are scheduled fairly: the Dispatcher, the Executor and the
\* workers whose Commands return keep running.  Nothing obliges the input
\* provider to deliver an event or to fail.
Fairness ==
    /\ WF_vars(Dispatcher)
    /\ WF_vars(Executor)
    /\ WF_vars(Worker)

FairSpec == Spec /\ Fairness

(* ---------------------- Scenario specifications ----------------------- *)
\* Scenario A: run with the Tick application.  It yields neither Batch nor
\* Quit, so the Batch loop and the Executor's exit have no step here.
TickInitialize == InitializeOf("ticker")
TickReceive == ReceiveOf("ticker")

TickNext ==
    \/ TickInitialize
    \/ View
    \/ TickReceive
    \/ ESRead
    \/ ESFail
    \/ ExecRecv
    \/ Worker

TickSpec == Init /\ [][TickNext]_vars

\* Scenario B: run with the Batch application, under fair scheduling.
BatchInitialize == InitializeOf("batcher")
BatchReceive == ReceiveOf("batcher")
BatchDispatcher == BatchInitialize \/ View \/ BatchReceive \/ BatchSend

BatchNext ==
    \/ BatchInitialize
    \/ View
    \/ BatchReceive
    \/ BatchSend
    \/ ESRead
    \/ ESFail
    \/ ExecRecv
    \/ Worker

BatchSpec ==
    /\ Init
    /\ [][BatchNext]_vars
    /\ WF_vars(BatchDispatcher)
    /\ WF_vars(ExecRecv)
    /\ WF_vars(Worker)

(* ------------------------- history operators -------------------------- *)
IsView(c) == c.op = "view"
IsUpdate(c) == c.op = "update"
\* the two control Messages, by what the boxed value is
QuitMsg(m) == m.type = "QuitMessage"
BatchMsg(m) == m.type = "BatchMessage"
NonControl(m) == ~QuitMsg(m) /\ ~BatchMsg(m)

Views == SelectSeq(calls, IsView)
Updates == SelectSeq(calls, IsUpdate)
NumNonControl == Len(SelectSeq(dequeued, NonControl))
NoBatchSeen == \A i \in 1..Len(dequeued) : ~BatchMsg(dequeued[i])
Last(q) == q[Len(q)]
Template(c) == [kind |-> c.kind, payload |-> c.payload, sub |-> c.sub]

(* ------------------------------- C1 ----------------------------------- *)
\* C1: update is never called twice without a view in between and the first
\* call is a view; in a run whose dequeued Messages include no Batch, the
\* calls are view, (update, view)*: with N non-control Messages dequeued
\* there are N updates, and N + 1 views once the Dispatcher is back at its
\* receive (or has ended on Quit).
C1_ViewUpdateAlternate ==
    /\ calls # <<>> => calls[1].op = "view"
    /\ \A i \in 1..(Len(calls) - 1) : calls[i].op = "update" => calls[i + 1].op = "view"
    /\ NoBatchSeen =>
        /\ \A i \in 1..Len(calls) : calls[i].op = IF i % 2 = 1 THEN "view" ELSE "update"
        /\ Len(Updates) = NumNonControl
        /\ pc \in {"recv", "done"} => Len(Views) = NumNonControl + 1
        /\ pc \in {"recv", "done"} => Len(calls) = 2 * NumNonControl + 1

C1_Witness ==
    /\ pc = "recv"
    /\ NoBatchSeen
    /\ NumNonControl = 3
    /\ Len(Views) = 4

(* ------------------------------- C2 ----------------------------------- *)
\* C2: the Dispatcher is Terminated exactly when the last Message it dequeued
\* is Quit; if that Quit is the k-th Message dequeued, none of the k - 1
\* before it is Quit, view has been called k times (the Init render and one
\* per earlier Message), the last call is one of those views and update was
\* never called with the Quit Message.
C2_QuitEndsLoop ==
    /\ pc = "done" <=> (dequeued # <<>> /\ QuitMsg(Last(dequeued)))
    /\ pc = "done" =>
        /\ \A i \in 1..(Len(dequeued) - 1) : ~QuitMsg(dequeued[i])
        /\ Len(Views) = Len(dequeued)
        /\ Last(calls).op = "view"
        /\ \A i \in 1..Len(calls) : ~QuitMsg(calls[i].msg)

C2_Witness ==
    /\ pc = "done"
    /\ Len(dequeued) = 3
    /\ Len(Views) = 3

(* ------------------------------- C3 ----------------------------------- *)
\* C3: once the Dispatcher has finished with a Batch Message (it is at the
\* render that follows, or past it at the next receive), the Batch's n
\* Commands are the last n Commands put on the command channel, in the
\* Batch's order, whatever they do when run and whether or not the Executor
\* has taken some of them.
C3_BatchEnqueuedInOrder ==
    (pc \in {"view", "recv"} /\ dequeued # <<>> /\ BatchMsg(Last(dequeued))) =>
        LET cs == Last(dequeued).cmds
            n == Len(cs)
        IN /\ Len(enq) >= n
           /\ \A i \in 1..n : Template(enq[Len(enq) - n + i]) = cs[i]
           /\ \A i \in 1..Len(enq) : enq[i].id = i

\* a Batch of a Command that never returns and one that yields a Message, at
\* the render after it, the Executor having already started the first
C3_Witness ==
    /\ pc = "view"
    /\ dequeued # <<>>
    /\ BatchMsg(Last(dequeued))
    /\ Len(Last(dequeued).cmds) = 2
    /\ Last(dequeued).cmds[1].kind = "hang"
    /\ Last(dequeued).cmds[2].kind = "msg"
    /\ Len(cmdq) = 1
    /\ \E w \in 1..Len(workers) : workers[w].cmd.id = Len(enq) - 1

(* ------------------------------- C4 ----------------------------------- *)
\* C4: update is never called with a Quit or Batch Message (it is called
\* once per non-control Message); the render that follows a Batch shows the
\* state the render before it showed; while the Batch is the last Message
\* dequeued the state is still that state and the Dispatcher is Running; and
\* each Message processed, a Batch included, is rendered exactly once.
C4_BatchLeavesState ==
    /\ \A i \in 1..Len(calls) : calls[i].op = "update" => NonControl(calls[i].msg)
    /\ Len(Updates) = NumNonControl
    /\ \A j \in 1..Len(dequeued) : BatchMsg(dequeued[j]) =>
        /\ Len(Views) >= j
        /\ Len(Views) >= j + 1 => Views[j + 1].state = Views[j].state
        /\ j = Len(dequeued) => (pc \in {"batch", "view", "recv"} /\ state = Views[j].state)
    /\ pc \in {"batch", "view"} => Len(Views) = Len(dequeued)
    /\ pc = "recv" => Len(Views) = Len(dequeued) + 1

\* a Batch processed and rendered after an update had changed the state
C4_Witness ==
    /\ pc = "recv"
    /\ \E j \in 1..Len(dequeued) :
        /\ BatchMsg(dequeued[j])
        /\ Len(Views) >= j + 1
        /\ Views[j].state = 1
        /\ Views[j + 1].state = 1

(* ------------------------------- C5 ----------------------------------- *)
DequeuedIds == {dequeued[i].id : i \in 1..Len(dequeued)}
QueuedIds == {msgq[i].id : i \in 1..Len(msgq)}

\* no Message is duplicated or lost: each Message sent sits once in the
\* channel or was dequeued once, never both
C5_ExactlyOnce ==
    /\ \A i, j \in 1..Len(dequeued) : dequeued[i].id = dequeued[j].id => i = j
    /\ \A i, j \in 1..Len(msgq) : msgq[i].id = msgq[j].id => i = j
    /\ QueuedIds \cap DequeuedIds = {}
    /\ QueuedIds \cup DequeuedIds = 1..nmsg

\* C5 as stated: every Message put on the message channel is eventually
\* dequeued by the Dispatcher.
C5_AlwaysDelivered ==
    \A n \in 1..MaxWork : (nmsg >= n) ~> (n \in DequeuedIds)

\* C5 amended: no Message is duplicated or lost in the channel, and every
\* Message put on it is eventually dequeued unless the Dispatcher has
\* terminated on a Quit Message that was ahead of it.
C5_DeliveredOnceUnlessQuit ==
    /\ []C5_ExactlyOnce
    /\ \A n \in 1..MaxWork : (nmsg >= n) ~> (n \in DequeuedIds \/ pc = "done")

\* three Messages, of the Event Source and of workers, all dequeued
C5_Witness ==
    /\ pc = "recv"
    /\ nmsg = 3
    /\ msgq = <<>>
    /\ Len(dequeued) = 3
    /\ \E i, j \in 1..3 : dequeued[i].from = 0 /\ dequeued[j].from > 0

(* ------------------------------- C6 ----------------------------------- *)
Started(j) == \E w \in 1..Len(workers) : workers[w].cmd.id = j

\* each Command enqueued waits in the channel or has one worker of its own
C6_OneWorkerEach ==
    /\ \A v, w \in 1..Len(workers) : workers[v].cmd.id = workers[w].cmd.id => v = w
    /\ \A w \in 1..Len(workers) :
        /\ workers[w].cmd.id \in 1..Len(enq)
        /\ workers[w].cmd = enq[workers[w].cmd.id]
    /\ \A j \in 1..Len(enq) : Started(j) # (\E i \in 1..Len(cmdq) : cmdq[i].id = j)

\* a worker that has ended never runs again, and no worker changes Command
C6_NoRetry ==
    \A w \in 1..Len(workers) :
        /\ workers'[w].cmd = workers[w].cmd
        /\ workers[w].st # "running" => workers'[w] = workers[w]

\* C6: every Command put on the command channel is eventually handed to a
\* worker spawned for it alone; no Command has two workers, no worker a
\* second Command, and a finished worker is never run again.
C6_ExecutedExactlyOnce ==
    /\ []C6_OneWorkerEach
    /\ [][C6_NoRetry]_vars
    /\ \A j \in 1..MaxWork : (Len(enq) >= j) ~> Started(j)

\* three Commands enqueued, each started, two of them finished
C6_Witness ==
    /\ Len(enq) = 3
    /\ Len(workers) = 3
    /\ cmdq = <<>>
    /\ Cardinality({w \in 1..3 : workers[w].st = "done"}) >= 2

(* ------------------------------- C7 ----------------------------------- *)
HungBefore(j) ==
    \E w \in 1..Len(workers) :
        /\ workers[w].cmd.kind = "hang"
        /\ workers[w].st = "running"
        /\ workers[w].cmd.id < j

\* C7: the Executor can take the next Command whenever one waits, whatever
\* its workers are doing; and a Command enqueued behind one that is running
\* and never returns is still eventually started.
C7_ExecutorNeverBlocked ==
    /\ []((exec = "running" /\ cmdq # <<>>) => ENABLED ExecRecv)
    /\ \A j \in 2..MaxWork : (Len(enq) >= j /\ HungBefore(j)) ~> Started(j)

\* two workers run at once, the first never to return
C7_Witness ==
    /\ Len(workers) >= 2
    /\ workers[1].cmd.kind = "hang"
    /\ workers[1].st = "running"
    /\ workers[2].st = "running"

(* ------------------------------- C8 ----------------------------------- *)
\* a step that changes the application state is the Dispatcher's update step
C8_StateStep ==
    state' # state =>
        /\ pc = "recv"
        /\ Len(calls') = Len(calls) + 1
        /\ Last(calls').op = "update"
        /\ Last(calls').state = state'

\* a Message is dequeued only after the view of the one before it
C8_DequeueStep ==
    dequeued' # dequeued =>
        /\ pc = "recv"
        /\ calls # <<>>
        /\ Last(calls).op = "view"
        /\ Len(Views) = Len(dequeued) + 1

\* view and update are called one at a time, from the Dispatcher's own
\* position in its loop; view leaves the state as it is
C8_CallStep ==
    calls' # calls =>
        /\ Len(calls') = Len(calls) + 1
        /\ SubSeq(calls', 1, Len(calls)) = calls
        /\ Last(calls').op = "view" =>
            (pc = "view" /\ state' = state /\ Last(calls').state = state
             /\ dequeued' = dequeued)
        /\ Last(calls').op = "update" => (pc = "recv" /\ pc' # "recv")

\* C8: view and update never overlap (each step of the run makes at most one
\* of the two calls, view from the Dispatcher's render position and update
\* from its receive position); the next Message is dequeued only after the
\* view for the current one; and the application state changes only in the
\* Dispatcher's update step.
C8_SingleMutator == [][C8_StateStep /\ C8_DequeueStep /\ C8_CallStep]_vars

\* the state was updated twice while the Event Source and a worker had run
C8_Witness ==
    /\ state = 2
    /\ pc = "recv"
    /\ nev >= 1
    /\ \E w \in 1..Len(workers) : workers[w].st = "done"

(* ------------------------------- C9 ----------------------------------- *)
\* C9: Commands are handed to workers in the order the Dispatcher enqueued
\* them: the n-th Command enqueued is the n-th started, and those waiting
\* in the channel are in enqueue order behind every one started.
C9_StartedInEnqueueOrder ==
    /\ \A i \in 1..Len(enq) : enq[i].id = i
    /\ \A w \in 1..Len(workers) : workers[w].cmd = enq[w]
    /\ \A i \in 1..Len(cmdq) : cmdq[i] = enq[Len(workers) + i]

\* the Messages of Commands come in either order: of three Commands started
\* in order, the second's Message follows the first's and the third's
\* precedes the second's
C9_Witness ==
    /\ Len(workers) = 3
    /\ workers[1].out > 0
    /\ workers[2].out > workers[1].out
    /\ workers[3].out > 0
    /\ workers[3].out < workers[2].out
    /\ \E i, j \in 1..Len(dequeued) :
        /\ i < j
        /\ dequeued[i].from = 3
        /\ dequeued[j].from = 2

(* ------------------------------- C10 ---------------------------------- *)
\* the Messages of the Event Source, dequeued and still in the channel
EventMsgs == SelectSeq(dequeued \o msgq, LAMBDA m : m.from = 0)

\* C10: the Messages of the Event Source reach the Dispatcher in the order
\* the Event Source sent them.
C10_ProducerOrder ==
    \A i, j \in 1..Len(EventMsgs) : i < j => EventMsgs[i].id < EventMsgs[j].id

\* two input events dequeued in order, a worker's Message between them
C10_Witness ==
    /\ Len(dequeued) = 3
    /\ dequeued[1].from = 0
    /\ dequeued[2].from > 0
    /\ dequeued[3].from = 0
    /\ dequeued[1].type # dequeued[3].type

(* ------------------------------- C11 ---------------------------------- *)
\* the Messages of the worker of Command j, dequeued and still in the channel
MsgsOf(j) == SelectSeq(dequeued \o msgq, LAMBDA m : m.from = j)

\* C11: a Command that returns None (or never returns) puts no Message on
\* the message channel, and every Command puts at most one; so each update
\* call answers an input event or the one Message of a Command that yielded
\* it, and there is at most one render per Message dequeued besides the
\* initial one.
C11_NoneYieldsNothing ==
    /\ \A w \in 1..Len(workers) :
        /\ workers[w].cmd.kind \in {"none", "hang"} => workers[w].out = 0
        /\ workers[w].out = 0 => MsgsOf(workers[w].cmd.id) = <<>>
        /\ Len(MsgsOf(workers[w].cmd.id)) <= 1
    /\ \A i \in 1..Len(dequeued \o msgq) :
        LET m == (dequeued \o msgq)[i]
        IN m.from > 0 =>
            /\ m.from \in 1..Len(enq)
            /\ enq[m.from].kind \in {"msg", "quit", "batch"}
            /\ Started(m.from)
    /\ Len(Updates) <= Len(dequeued)
    /\ Len(Views) <= Len(dequeued) + 1

\* an input event was processed, its update scheduled a Command that
\* returned None, and nothing followed: one update, and its render
C11_Witness ==
    /\ pc = "recv"
    /\ Len(enq) = 1
    /\ Len(workers) = 1
    /\ workers[1].cmd.kind = "none"
    /\ workers[1].st = "done"
    /\ msgq = <<>>
    /\ Len(dequeued) = 1
    /\ Len(calls) = 3
    /\ es = "readfailed"

(* ------------------------------- C12 ---------------------------------- *)
\* C12: the Message update receives from a Command is the Message that
\* Command returned: an application Message carrying the Command's payload,
\* as it was sent and as it sat in the channel.
C12_PayloadRoundTrip ==
    /\ \A i \in 1..Len(calls) :
        (calls[i].op = "update" /\ calls[i].msg.from > 0) =>
            LET c == enq[calls[i].msg.from]
            IN /\ c.kind = "msg"
               /\ calls[i].msg.type = "App"
               /\ calls[i].msg.payload = <<c.payload>>
               /\ calls[i].msg.cmds = <<>>
               /\ \E k \in 1..Len(dequeued) : dequeued[k] = calls[i].msg
    /\ \A i \in 1..Len(msgq) :
        (msgq[i].from > 0 /\ msgq[i].type = "App") =>
            msgq[i].payload = <<enq[msgq[i].from].payload>>

\* update has received the Message of a Command, with its payload
C12_Witness ==
    \E i \in 1..Len(calls) :
        /\ calls[i].op = "update"
        /\ calls[i].msg.from > 0
        /\ calls[i].msg.payload = <<1>>
        /\ enq[calls[i].msg.from].payload = 1

(* ------------------------------- C13 ---------------------------------- *)
\* update was called with the Message of the worker of Command j
DeliveredFrom(j) ==
    \E i \in 1..Len(calls) : calls[i].op = "update" /\ calls[i].msg.from = j

\* cmdA and cmdB (the second and third Commands enqueued, after the Command
\* that yields the Batch) both have a worker, and update has received the
\* Message of each one that yields a Message
C13_BothDone ==
    /\ Len(enq) = 3
    /\ Started(2)
    /\ Started(3)
    /\ \A j \in {2, 3} : enq[j].kind = "msg" => DeliveredFrom(j)

\* C13 (Scenario B): once update has returned the Command that yields
\* Batch([cmdA, cmdB]), the Batch's Commands are enqueued as cmdA, cmdB and
\* both are eventually executed, and the Message of each is eventually
\* delivered to update.
C13_BatchBothExecuted ==
    /\ [](Len(enq) >= 1 => (enq[1].kind = "batch" /\ Len(enq[1].sub) = 2))
    /\ [](Len(enq) = 3 => (Template(enq[2]) = enq[1].sub[1] /\ Template(enq[3]) = enq[1].sub[2]))
    /\ (Len(enq) >= 1) ~> C13_BothDone

\* both Commands yield a Message and update received cmdB's before cmdA's
C13_Witness ==
    \E i, k \in 1..Len(calls) :
        /\ i < k
        /\ calls[i].op = "update"
        /\ calls[i].msg.from = 3
        /\ calls[k].op = "update"
        /\ calls[k].msg.from = 2

(* ------------------------------- C14 ---------------------------------- *)
\* the states view has rendered, in order
Rendered == [i \in 1..Len(Views) |-> Views[i].state]

\* C14 (Scenario A): the counts rendered are 0, 1, 2, ... in order, none
\* skipped and none rendered twice; once three Ticks have been processed and
\* rendered they are exactly 0, 1, 2, 3.
C14_TickRenders ==
    /\ \A i \in 1..Len(Views) : Rendered[i] = i - 1
    /\ (pc = "recv" /\ Len(dequeued) = 3) => Rendered = <<0, 1, 2, 3>>
    /\ \A i \in 1..Len(enq) : Template(enq[i]) = TickCmd

\* three Ticks processed: the one that starts the run and the two produced
\* by the Commands update yielded
C14_Witness ==
    /\ pc = "recv"
    /\ Len(dequeued) = 3
    /\ dequeued[1].from = 0
    /\ dequeued[2].from = 1
    /\ dequeued[3].from = 2
    /\ Rendered = <<0, 1, 2, 3>>
    /\ state = 3

(* ------------------------------- C15 ---------------------------------- *)
\* before the first render: nothing dequeued, at most the Command of init
\* on the command channel
C15_BeforeRender ==
    calls = <<>> =>
        /\ pc \in {"init", "view"}
        /\ dequeued = <<>>
        /\ state = 0
        /\ Len(enq) <= 1
        /\ pc = "init" => enq = <<>>

\* the first call is the render of the initial state, and it is the only
\* call until a Message has been dequeued
C15_AfterRender ==
    calls # <<>> =>
        /\ pc # "init"
        /\ calls[1] = ViewCall(0)
        /\ dequeued = <<>> => calls = <<ViewCall(0)>>

\* the init step is not taken again, and the first render leaves the command
\* channel as init left it
C15_InitStep ==
    /\ pc # "init" => pc' # "init"
    /\ (calls = <<>> /\ calls' # <<>>) => (pc = "view" /\ enq' = enq /\ cmdq' = cmdq)

\* C15: init runs once; the Command it yields is on the command channel
\* before the initial render; the initial state is rendered exactly once,
\* with or without such a Command, before any Message is dequeued and before
\* update is first called.
C15_InitThenRender ==
    /\ []C15_BeforeRender
    /\ []C15_AfterRender
    /\ [][C15_InitStep]_vars

\* init yielded a Command, the initial state is rendered once, and a Message
\* waits that has not been dequeued
C15_Witness ==
    /\ pc = "recv"
    /\ calls = <<ViewCall(0)>>
    /\ Len(enq) = 1
    /\ enq[1].kind # "none"
    /\ msgq # <<>>
    /\ dequeued = <<>>

(* ------------------------------- C16 ---------------------------------- *)
QuitSeen == \E i \in 1..Len(dequeued) : QuitMsg(dequeued[i])

\* once terminated the Dispatcher does nothing more
C16_DispatcherStopped ==
    pc = "done" =>
        UNCHANGED <<pc, dequeued, calls, enq, state, pending, msgq, rxAlive, txAlive>>

\* the other threads are not stopped by the Dispatcher's end
C16_OthersGoOn ==
    pc = "done" =>
        /\ \A i \in Running : workers[i].cmd.kind # "hang" => ENABLED WorkerReturn(i)
        /\ es = "reading" => ENABLED ESFail
        /\ (es = "reading" /\ Budget > 0) => ENABLED ESRead

\* C16: after Quit is dequeued the Dispatcher dequeues, updates, renders and
\* enqueues nothing more, so what is queued behind Quit stays unprocessed;
\* the workers then running and the Event Source can still take steps.
C16_TerminatedAbsorbing ==
    /\ [](QuitSeen => (pc = "done" /\ QuitMsg(Last(dequeued))))
    /\ [][C16_DispatcherStopped]_vars
    /\ []C16_OthersGoOn

\* terminated with a Message left behind Quit, and the Event Source has
\* taken a step since
C16_Witness ==
    /\ pc = "done"
    /\ msgq # <<>>
    /\ es = "sendfailed"

(* ------------------------------- C17 ---------------------------------- *)
Panicked == {i \in 1..Len(workers) : workers[i].st = "panicked"}

\* a failed send is made after the Dispatcher has terminated
C17_OnlyAfterDone ==
    /\ (es = "sendfailed" \/ Panicked # {}) => (pc = "done" /\ ~rxAlive)
    /\ \A i \in Panicked : workers[i].out = 0

\* a step that fails at its send changes its own thread and nothing else;
\* with the receiver gone no Message enters the channel or is dequeued
C17_SendStep ==
    /\ ~rxAlive => (msgq' = msgq /\ nmsg' = nmsg /\ dequeued' = dequeued)
    /\ (es # "sendfailed" /\ es' = "sendfailed") =>
           UNCHANGED <<state, pc, pending, msgq, cmdq, exec, workers, nmsg, calls,
                       dequeued, enq>>
    /\ es = "sendfailed" => es' = "sendfailed"
    /\ \A i \in 1..Len(workers) :
           /\ (workers[i].st # "panicked" /\ workers'[i].st = "panicked") =>
                  /\ UNCHANGED <<state, pc, pending, msgq, cmdq, exec, es, nmsg, calls,
                                 dequeued, enq>>
                  /\ \A j \in 1..Len(workers) : j # i => workers'[j] = workers[j]
           /\ workers[i].st = "panicked" => workers'[i] = workers[i]

\* C17: a send on the message channel after the Dispatcher has dropped its
\* receiver fails and stops the sender, worker or Event Source; the Message
\* goes nowhere and no other thread is stopped by it.
C17_FailedSendAbortsSender ==
    /\ []C17_OnlyAfterDone
    /\ [][C17_SendStep]_vars

\* a worker failed at its send while the Executor and the Event Source go on
C17_Witness ==
    /\ pc = "done"
    /\ Panicked # {}
    /\ exec = "running"
    /\ es = "reading"

(* ------------------------------- C18 ---------------------------------- *)
\* the failing read changes the Event Source and nothing else; once failed
\* the Event Source stays failed, reads nothing and sends nothing
C18_FailStep ==
    /\ (es = "reading" /\ es' = "readfailed") =>
           UNCHANGED <<state, pc, pending, msgq, cmdq, rxAlive, txAlive, exec, workers,
                       nev, ncmd, nmsg, calls, dequeued, enq>>
    /\ es = "readfailed" =>
           /\ es' = "readfailed"
           /\ nev' = nev
           /\ Len(msgq') > Len(msgq) => Last(msgq').from > 0

\* C18: a failed read ends the Event Source for good, with no retry, no
\* restart and no Message sent; the Dispatcher and the application state are
\* left as they were, and every Message a worker sends afterwards is still
\* dequeued (unless the Dispatcher has terminated on Quit).
C18_ReadFailureIsLocal ==
    /\ [][C18_FailStep]_vars
    /\ [](es = "readfailed" => pc \in {"init", "view", "recv", "batch", "done"})
    /\ \A n \in 1..MaxWork :
           (es = "readfailed" /\ n \in QueuedIds) ~> (n \in DequeuedIds \/ pc = "done")

\* the Event Source failed before it read anything, and Messages of workers
\* have been dequeued and given to update since
C18_Witness ==
    /\ es = "readfailed"
    /\ nev = 0
    /\ pc = "recv"
    /\ Len(dequeued) >= 2
    /\ Len(Updates) >= 2
    /\ \A i \in 1..Len(dequeued) : dequeued[i].from > 0

(* ------------------------------- C19 ---------------------------------- *)
Live == pc \in {"init", "view", "recv", "batch"}

\* while the Dispatcher is live both channels stay connected
C19_Connected ==
    /\ pc # "panicked"
    /\ Live => (exec = "running" /\ txAlive /\ rxAlive /\ ~Disconnected)
    /\ exec = "exited" => pc = "done"

\* the Event Source has failed, no worker runs and nothing is queued
C19_Idle ==
    /\ pc = "recv"
    /\ es = "readfailed"
    /\ Running = {}
    /\ msgq = <<>>
    /\ cmdq = <<>>

\* C19: in Init and Running neither the receive on the message channel nor a
\* send on the command channel can find its channel disconnected: the
\* Executor is alive, holding a message Sender, until run has returned.  With
\* the Event Source failed, no worker running and nothing queued, the
\* Dispatcher is blocked in recv: no thread has a step, and no error ends it.
C19_NoDisconnect ==
    /\ C19_Connected
    /\ C19_Idle => (~ENABLED Receive /\ ~ENABLED Next)

\* blocked for good after Messages of workers were processed
C19_Witness ==
    /\ C19_Idle
    /\ Len(workers) >= 1
    /\ dequeued # <<>>

(* ------------------------------- C20 ---------------------------------- *)
EventTypes == {"KeyEvent", "MouseEvent", "ResizeEvent"}

\* every Message sent so far, dequeued or still queued
Sent == dequeued \o msgq

\* C20: the Dispatcher terminates only on a Quit Message that the worker of
\* a Command put on the message channel; the Event Source sends only key,
\* pointer and resize Messages; while no Command that yields Quit has been
\* enqueued the Dispatcher has not left Running.
C20_QuitOnlyFromCommand ==
    /\ \A i \in 1..Len(Sent) :
           /\ Sent[i].from = 0 => Sent[i].type \in EventTypes
           /\ (QuitMsg(Sent[i]) \/ BatchMsg(Sent[i])) =>
                  /\ Sent[i].from \in 1..Len(enq)
                  /\ CommandMessage(Template(enq[Sent[i].from])).type = Sent[i].type
    /\ pc = "done" =>
           \E w \in 1..Len(workers) :
               /\ workers[w].cmd.kind = "quit"
               /\ workers[w].st = "done"
               /\ workers[w].out = Last(dequeued).id
               /\ QuitMsg(Last(dequeued))
    /\ (\A j \in 1..Len(enq) : enq[j].kind # "quit") => Live

\* terminated on a worker's Quit after Messages of the Event Source were
\* processed
C20_Witness ==
    /\ pc = "done"
    /\ Len(dequeued) >= 3
    /\ dequeued[1].from = 0
    /\ dequeued[2].from = 0
    /\ Last(dequeued).from > 0

====
